---- MODULE Spec2Model ----
(***************************************************************************)
(* A model of the promoter analysis pipeline (src/src/main.rs, gtf.rs,     *)
(* gc_content.rs, plots.rs): the GTF record parser, the longest-transcript *)
(* selector, the promoter windower, the GC sliding window, the reverse     *)
(* complement, the MNase aggregators and the mode dispatch of main.         *)
(*                                                                         *)
(* Conventions.  A Rust slice s (0-based) is a TLA+ sequence (1-based):    *)
(* s[a..b] is SubSeq(s, a + 1, b).  A byte is a one-character string.  A   *)
(* Result is a record [tag |-> "Ok", val |-> v] or [tag |-> "Err", ...];   *)
(* a panic (unwrap, todo!, slice index, integer underflow) is the value    *)
(* Panic.  A float is kept exact: an f32 GC fraction is the pair           *)
(* [num, den]; a quotient of two sums is the reduced fraction, or 0/0.     *)
(***************************************************************************)
EXTENDS Integers, Sequences, FiniteSets, TLC

VARIABLES
    pc,                  \* position of main (or "unit" for a single function call)
    cli,                 \* the four mode flags of Cli
    fasta_file,          \* the FASTA file: number of records and the first record's sequence
    gtf_file,            \* the GTF file: a sequence of lines
    mnase_seq,           \* the BigWig track of chr1: position -> value or NaN
    fasta_record,        \* main's fasta_record (the chromosome sequence)
    records,             \* main's records
    longest_transcripts, \* main's longest_transcripts (a set: HashMap values, order unspecified)
    promotors,           \* main's promotors
    total_gc,            \* main's total_gc after the promoter loop
    total_affinity,      \* the (count, sum) accumulator of the last aggregation
    opened,              \* the input files opened so far
    plots,               \* the SVG files written: file name -> the series drawn
    result,              \* how main ended: "running", Ok, Err or Panic
    call,                \* a single function call under test: its arguments
    ret                  \* ... and what it returned

vars == <<pc, cli, fasta_file, gtf_file, mnase_seq, fasta_record, records,
          longest_transcripts, promotors, total_gc, total_affinity, opened,
          plots, result, call, ret>>

(***************************************************************************)
(* Values                                                                  *)
(***************************************************************************)
Panic == [tag |-> "Panic"]

Ok(v) == [tag |-> "Ok", val |-> v]

Err(e) == [tag |-> "Err", err |-> e]

\* a track holds non-negative values; the f32 NaN is kept apart from them
\* as -1 and never enters a sum
NaN == -1

\* the f64 NaN of 0.0 / 0.0
NaNQuotient == [num |-> 0, den |-> 0]

Running == [tag |-> "Running"]

NotReturned == [tag |-> "None"]

Min(a, b) == IF a <= b THEN a ELSE b

(***************************************************************************)
(* main.rs: PromotorRegion::get_opposite_sequence                          *)
(***************************************************************************)
Complement(x) ==
    CASE x = "A" -> "T"
      [] x = "T" -> "A"
      [] x = "G" -> "C"
      [] x = "C" -> "G"
      [] OTHER -> x

\* mutant: the C arm of the match is missing
get_opposite_sequence_noC(sequence) ==
    [i \in 1..Len(sequence) |->
        LET x == sequence[Len(sequence) + 1 - i]
        IN  IF x = "C" THEN x ELSE Complement(x)]

get_opposite_sequence(sequence) ==
    [i \in 1..Len(sequence) |-> Complement(sequence[Len(sequence) + 1 - i])]

(***************************************************************************)
(* gc_content.rs: get_gc_content.  The callers (main.rs:69, plots.rs:32)   *)
(* pass a third argument; the function as written takes the step from the  *)
(* window size (line 8) and pairs each fraction with the index of the      *)
(* window's first byte (line 24).                                          *)
(***************************************************************************)
IsGC(c) == c \in {"G", "C"}

\* .map(|c| match c { b'G' | b'C' => 1, _ => 0 }).sum::<u64>() over one window
GcCount(sequence, first, window_size) ==
    Cardinality({k \in first..(first + window_size - 1) : IsGC(sequence[k])})

get_gc_content(sequence, window_size, step_arg) ==
    LET step == window_size \div 10
        \* slice::windows(n): len - n + 1 windows, none when the slice is shorter
        n_windows == IF Len(sequence) >= window_size
                     THEN Len(sequence) - window_size + 1 ELSE 0
        \* step_by(step): the windows 0, step, 2 step, ...
        n_out == IF n_windows = 0 THEN 0 ELSE ((n_windows - 1) \div step) + 1
    IN  IF window_size = 0 \/ step = 0
        THEN Panic    \* windows(0) and step_by(0) both panic
        ELSE Ok([i \in 1..n_out |->
                <<(i - 1) * step,
                  [num |-> GcCount(sequence, (i - 1) * step + 1, window_size),
                   den |-> window_size]>>])

(***************************************************************************)
(* gtf.rs: the record parser.  A line is the sequence of its tab-separated *)
(* columns.  A column the code compares whole (chromosome, source, feature,*)
(* strand) is a string; a coordinate column, parsed digit by digit, is a   *)
(* sequence of characters; the attributes column is the sequence of its    *)
(* attributes, [key, prefix, rest] standing for the text                   *)
(*     key "prefix rest";                                                  *)
(***************************************************************************)
Digits == <<"0", "1", "2", "3", "4", "5", "6", "7", "8", "9">>

DigitValue(c) == (CHOOSE d \in 1..10 : Digits[d] = c) - 1

IsDigit(c) == \E d \in 1..10 : Digits[d] = c

RECURSIVE DecimalValue(_)
DecimalValue(s) ==
    IF s = <<>> THEN 0
    ELSE 10 * DecimalValue(SubSeq(s, 1, Len(s) - 1)) + DigitValue(s[Len(s)])

\* str::parse::<usize>: an optional '+', then at least one digit, nothing else
parse_usize(s) ==
    LET digits == IF s # <<>> /\ s[1] = "+" THEN Tail(s) ELSE s
    IN  IF digits # <<>> /\ \A k \in 1..Len(digits) : IsDigit(digits[k])
        THEN Ok(DecimalValue(digits))
        ELSE Err("ParseIntError")

Strand_from_str(s) ==
    CASE s = "+" -> Ok("Plus")
      [] s = "-" -> Ok("Minus")
      [] OTHER -> Panic    \* todo!()

FeatureType_from_str(s) ==
    CASE s = "gene" -> Ok("Gene")
      [] s = "transcript" -> Ok("Transcript")
      [] s = "exon" -> Ok("Exon")
      [] s = "CDS" -> Ok("CDS")
      [] s = "UTR" -> Ok("UTR")
      [] s = "start_codon" -> Ok("StartCodon")
      [] s = "stop_codon" -> Ok("StopCodon")
      [] s = "Selenocysteine" -> Ok("Selenocysteine")
      [] OTHER -> Err("FeatureTypeError")

\* gene_id "(ENSG[^"]+)";
IsGeneIdAttr(a) == a.key = "gene_id" /\ a.prefix = "ENSG" /\ a.rest # ""

\* transcript_id "(ENST[^"]+)";
IsTranscriptIdAttr(a) == a.key = "transcript_id" /\ a.prefix = "ENST" /\ a.rest # ""

\* RE.captures(s).unwrap(): the leftmost gene_id attribute that some
\* transcript_id attribute follows, then (the .* is greedy) the last such
\* transcript_id attribute
Attributes_from_str(s) ==
    LET starts == {i \in 1..Len(s) :
                      /\ IsGeneIdAttr(s[i])
                      /\ \E j \in (i + 1)..Len(s) : IsTranscriptIdAttr(s[j])}
    IN  IF starts = {}
        THEN Panic    \* unwrap() of None
        ELSE LET i == CHOOSE x \in starts : \A y \in starts : x <= y
                 j == CHOOSE x \in (i + 1)..Len(s) :
                        /\ IsTranscriptIdAttr(s[x])
                        /\ \A y \in (i + 1)..Len(s) : IsTranscriptIdAttr(s[y]) => y <= x
             IN  Ok([gene_id |-> s[i].prefix \o s[i].rest,
                     transcript_id |-> s[j].prefix \o s[j].rest])

StartsWithHash(line) == Len(line) > 0 /\ line[1] = "#"

\* cols.nth(2), next(), next(), nth(1), nth(1): columns 2, 3, 4, 6 and 8
\* (0-based), each parsed as soon as it is taken; the first failure returns
GTFRecord_from_str(s) ==
    LET err == Err("SyntaxError")
        col(k) == s[k + 1]
        has(k) == Len(s) >= k + 1
    IN  IF StartsWithHash(s) THEN Err("Comment")
        ELSE IF ~has(2) THEN err
        ELSE LET feature_type == FeatureType_from_str(col(2)) IN
        IF feature_type.tag # "Ok" THEN feature_type
        ELSE IF ~has(3) THEN err
        ELSE LET start == parse_usize(col(3)) IN
        IF start.tag # "Ok" THEN start
        ELSE IF ~has(4) THEN err
        ELSE LET end == parse_usize(col(4)) IN
        IF end.tag # "Ok" THEN end
        ELSE IF ~has(6) THEN err
        ELSE LET strand == Strand_from_str(col(6)) IN
        IF strand.tag # "Ok" THEN strand
        ELSE IF ~has(8) THEN err
        ELSE LET attributes == Attributes_from_str(col(8)) IN
        IF attributes.tag # "Ok" THEN attributes
        ELSE Ok([feature_type |-> feature_type.val,
                 start |-> start.val,
                 end |-> end.val,
                 strand |-> strand.val,
                 attributes |-> attributes.val])

\* the pre-filter of read_gtf_file:
\*   ^chr1\t(?:HAVANA|ENSEMBL)\t(?:transcript|start_codon).*gene_type..protein_coding.;
\* (in the lines modelled only the attributes column holds attribute text)
PreFilterMatches(line) ==
    /\ Len(line) >= 9
    /\ line[1] = "chr1"
    /\ line[2] \in {"HAVANA", "ENSEMBL"}
    /\ line[3] \in {"transcript", "start_codon"}
    /\ \E k \in 1..Len(line[9]) :
          line[9][k].key = "gene_type" /\ line[9][k].prefix = "protein_coding"

\* .map(parse).collect::<Result<Vec<_>>>(): the records in file order, or the
\* first failure met (an error value, or the panic of the parser)
RECURSIVE CollectRecords(_)
CollectRecords(lines) ==
    IF lines = <<>> THEN Ok(<<>>)
    ELSE LET first == GTFRecord_from_str(Head(lines)) IN
         IF first.tag # "Ok" THEN first
         ELSE LET rest == CollectRecords(Tail(lines)) IN
              IF rest.tag # "Ok" THEN rest
              ELSE Ok(<<first.val>> \o rest.val)

read_gtf_file(annotations) ==
    IF ~annotations.exists
    THEN Err("IOError")    \* File::open(path)?
    ELSE LET Kept(line) == ~StartsWithHash(line) /\ PreFilterMatches(line)
         IN  CollectRecords(SelectSeq(annotations.lines, Kept))

(***************************************************************************)
(* gtf.rs: GTFRecord::len and get_longest_transcripts.  A &GTFRecord is    *)
(* the index of the record in gtf_records.                                 *)
(***************************************************************************)
Abs(x) == IF x < 0 THEN -x ELSE x

GTFRecord_len(r) == Abs(r.start - r.end)

\* mutant: a later transcript of equal length replaces the incumbent
LongestStep_ge(gtf_records, candidates, k) ==
    LET gene_id == gtf_records[k].attributes.gene_id
    IN  IF gene_id \notin DOMAIN candidates
        THEN [g \in DOMAIN candidates \cup {gene_id} |->
                IF g = gene_id THEN k ELSE candidates[g]]
        ELSE IF GTFRecord_len(gtf_records[k]) >= GTFRecord_len(gtf_records[candidates[gene_id]])
             THEN [candidates EXCEPT ![gene_id] = k]
             ELSE candidates

\* one turn of the loop: entry(gene_id).and_modify(..).or_insert(candidate)
LongestStep(gtf_records, candidates, k) ==
    LET gene_id == gtf_records[k].attributes.gene_id
    IN  IF gene_id \notin DOMAIN candidates
        THEN [g \in DOMAIN candidates \cup {gene_id} |->
                IF g = gene_id THEN k ELSE candidates[g]]
        ELSE IF GTFRecord_len(gtf_records[k]) > GTFRecord_len(gtf_records[candidates[gene_id]])
             THEN [candidates EXCEPT ![gene_id] = k]
             ELSE candidates

\* the loop over the Transcript records from index k on
RECURSIVE LongestLoop(_, _, _)
LongestLoop(gtf_records, candidates, k) ==
    IF k > Len(gtf_records) THEN candidates
    ELSE IF gtf_records[k].feature_type = "Transcript"
         THEN LongestLoop(gtf_records, LongestStep(gtf_records, candidates, k), k + 1)
         ELSE LongestLoop(gtf_records, candidates, k + 1)

\* the values of the map, as a set: their order in the Vec is the HashMap's
get_longest_transcripts(gtf_records) ==
    LET longest_transcript_candidates == LongestLoop(gtf_records, <<>>, 1)
    IN  {longest_transcript_candidates[g] : g \in DOMAIN longest_transcript_candidates}

(***************************************************************************)
(* main.rs: find_promotor_regions.  A usize that wrapped below zero (or, in*)
(* a debug build, whose subtraction panicked) is kept as the negative      *)
(* number: as a slice bound it is 2^64 + x, above every end.               *)
(***************************************************************************)
\* &seq[start..end]: panics unless start <= end <= len
Slice(seq, start, end) ==
    IF start < 0 \/ end < 0 \/ start > end \/ end > Len(seq)
    THEN Panic
    ELSE Ok(SubSeq(seq, start + 1, end))

\* mutant: both windows start one byte later (same length)
PromotorOf_shift(seq, start_codon) ==
    IF start_codon.strand = "Plus"
    THEN LET start == start_codon.start - 1000
             end == start_codon.start + 101
             sequence == Slice(seq, start, end)
         IN  IF sequence.tag # "Ok" THEN Panic
             ELSE Ok([sequence |-> sequence.val, location |-> start, strand |-> "Plus"])
    ELSE LET start == start_codon.end + 1001
             end == start_codon.end - 100
             sequence == Slice(seq, end, start)
         IN  IF sequence.tag # "Ok" THEN Panic
             ELSE Ok([sequence |-> sequence.val, location |-> end, strand |-> "Minus"])

\* mutant: the Plus window ends one byte early
PromotorOf_short(seq, start_codon) ==
    IF start_codon.strand = "Plus"
    THEN LET start == start_codon.start - 1001
             end == start_codon.start + 100 - 1
             sequence == Slice(seq, start, end)
         IN  IF sequence.tag # "Ok" THEN Panic
             ELSE Ok([sequence |-> sequence.val, location |-> start, strand |-> "Plus"])
    ELSE LET start == start_codon.end + 1000
             end == start_codon.end - 101
             sequence == Slice(seq, end, start)
         IN  IF sequence.tag # "Ok" THEN Panic
             ELSE Ok([sequence |-> sequence.val, location |-> end, strand |-> "Minus"])

\* the body of the loop over the start codons
PromotorOf(seq, start_codon) ==
    IF start_codon.strand = "Plus"
    THEN LET start == start_codon.start - 1001
             end == start_codon.start + 100
             sequence == Slice(seq, start, end)
         IN  IF sequence.tag # "Ok" THEN Panic
             ELSE Ok([sequence |-> sequence.val, location |-> start, strand |-> "Plus"])
    ELSE LET start == start_codon.end + 1000
             end == start_codon.end - 101
             sequence == Slice(seq, end, start)
         IN  IF sequence.tag # "Ok" THEN Panic
             ELSE Ok([sequence |-> sequence.val, location |-> end, strand |-> "Minus"])

\* the start codons of the selected transcripts, in file order
StartCodons(gtf_records, transcripts) ==
    LET ids == {gtf_records[t].attributes.transcript_id : t \in transcripts}
        Selected(r) == r.feature_type = "StartCodon" /\ r.attributes.transcript_id \in ids
    IN  SelectSeq(gtf_records, Selected)

find_promotor_regions(seq, gtf_records, transcripts) ==
    LET start_codons == StartCodons(gtf_records, transcripts)
        windows == [k \in 1..Len(start_codons) |-> PromotorOf(seq, start_codons[k])]
        lengths == {Len(windows[k].val.sequence) : k \in 1..Len(windows)}
    IN  IF \E k \in 1..Len(windows) : windows[k].tag # "Ok"
        THEN Panic                 \* a slice index out of range
        ELSE IF Cardinality(lengths) > 1
        THEN Panic                 \* assert!(max == min)
        ELSE Ok([k \in 1..Len(windows) |-> windows[k].val])

(***************************************************************************)
(* Exact arithmetic for the floats: a fraction is [num, den], reduced.     *)
(***************************************************************************)
RECURSIVE GCD(_, _)
GCD(a, b) == IF b = 0 THEN a ELSE GCD(b, a % b)

Reduce(num, den) ==
    LET g == GCD(Abs(num), den)
    IN  [num |-> num \div g, den |-> den \div g]

FracAdd(f, g) == Reduce(f.num * g.den + g.num * f.den, f.den * g.den)

\* v / count as f64: 0.0 / 0.0 is NaN
Quotient(sum, count) == IF count = 0 THEN NaNQuotient ELSE Reduce(sum, count)

(***************************************************************************)
(* main.rs: the promoter GC mode (lines 59-84) and plots.rs: plot2         *)
(***************************************************************************)
StrandNormalized(p) ==
    IF p.strand = "Minus" THEN get_opposite_sequence(p.sequence) ELSE p.sequence

\* for ((i, x), (j, y)) in total_gc.iter_mut().zip(gc.iter()) { *i = *j; *x += y }
ZipAddGc(acc, gc) ==
    [k \in 1..Len(acc) |->
        IF k <= Len(gc) THEN <<gc[k][1], FracAdd(acc[k][2], gc[k][2])>> ELSE acc[k]]

RECURSIVE GcLoop(_, _, _)
GcLoop(proms, acc, k) ==
    IF k > Len(proms) THEN acc
    ELSE LET gc == get_gc_content(StrandNormalized(proms[k]), 150, 1)
         IN  IF gc.tag # "Ok" THEN Panic
             ELSE GcLoop(proms, Ok(ZipAddGc(acc.val, gc.val)), k + 1)

\* the averaged series handed to plot2, or the panic of promotors[0]
promotor_gc(proms) ==
    IF proms = <<>> \/ Len(proms[1].sequence) < 149
    THEN Panic
    ELSE LET sums == GcLoop(proms, Ok([k \in 1..(Len(proms[1].sequence) - 149) |->
                                         <<0, [num |-> 0, den |-> 1]>>]), 1)
         IN  IF sums.tag # "Ok" THEN Panic
             ELSE Ok([k \in 1..Len(sums.val) |->
                        <<sums.val[k][1],
                          Reduce(sums.val[k][2].num, sums.val[k][2].den * Len(proms))>>])

\* plots.rs:80-83: each point is drawn at (a - 1000, b)
plot2(data) == [k \in 1..Len(data) |-> <<data[k][1] - 1000, data[k][2]>>]

\* plots.rs:31-44: the three series of the chromosome plot
plot1(seq, window_size) ==
    [f \in 1..3 |->
        LET factor == <<1, 10, 100>>[f]
        IN  get_gc_content(seq, window_size * factor, (window_size * factor) \div 10)]

(***************************************************************************)
(* The BigWig reader (bigtools): values(chr1, start, end) is the dense     *)
(* array of the track's values at start .. end - 1, NaN where the track    *)
(* holds none.                                                             *)
(***************************************************************************)
TrackAt(bw, pos) == IF pos \in DOMAIN bw THEN bw[pos] ELSE NaN

BigWigValues(bw, start, end) == [i \in 1..(end - start) |-> TrackAt(bw, start + i - 1)]

Reverse(s) == [i \in 1..Len(s) |-> s[Len(s) + 1 - i]]

\* mutant: a NaN is accumulated as an observation of zero
Accumulate_nanzero(acc, affinity) ==
    [i \in 1..Len(acc) |->
        IF i <= Len(affinity)
        THEN [count |-> acc[i].count + 1,
              sum |-> acc[i].sum + (IF affinity[i] = NaN THEN 0 ELSE affinity[i])]
        ELSE acc[i]]

\* for (i, v) in affinity.iter().enumerate() { if !v.is_nan() { ... } }
Accumulate(acc, affinity) ==
    [i \in 1..Len(acc) |->
        IF i <= Len(affinity) /\ affinity[i] # NaN
        THEN [count |-> acc[i].count + 1, sum |-> acc[i].sum + affinity[i]]
        ELSE acc[i]]

ZeroAffinity(n) == [i \in 1..n |-> [count |-> 0, sum |-> 0]]

\* main.rs:92-97: the window of one promoter, reversed when Minus
PromotorWindow(bw, p) ==
    LET affinity == BigWigValues(bw, p.location, p.location + 1100)
    IN  IF p.strand = "Minus" THEN Reverse(affinity) ELSE affinity

\* main.rs:89-105
RECURSIVE PromotorAffinityLoop(_, _, _, _)
PromotorAffinityLoop(bw, proms, acc, k) ==
    IF k > Len(proms) THEN acc
    ELSE PromotorAffinityLoop(bw, proms, Accumulate(acc, PromotorWindow(bw, proms[k])), k + 1)

promotor_nsome_affinity(bw, proms) == PromotorAffinityLoop(bw, proms, ZeroAffinity(1100), 1)

\* (-1000..100).zip(total_affinity.iter().map(|&(count, v)| v / count as f64))
AvgAffinity(first_offset, acc) ==
    [i \in 1..Len(acc) |-> <<first_offset + i - 1, Quotient(acc[i].sum, acc[i].count)>>]

(***************************************************************************)
(* main.rs: the motif scan and get_tfbs_avg_nsome_affinity.  A regex is    *)
(* the sequence of the byte strings it matches, in order of preference.    *)
(***************************************************************************)
regex_ap_1 == << <<"T", "G", "A", "C", "T", "C", "A">>,
                 <<"T", "G", "A", "G", "T", "C", "A">> >>

regex_nf_y == << <<"C", "C", "A", "A", "T">>, <<"A", "T", "T", "G", "G">> >>

\* whether alternative alt matches seq at 0-based offset s
AltMatchesAt(alt, seq, s) ==
    /\ s + Len(alt) <= Len(seq)
    /\ \A j \in 1..Len(alt) : seq[s + j] = alt[j]

\* the length of the match that starts at s, 0 when there is none
MatchLenAt(regex, seq, s) ==
    IF \E a \in 1..Len(regex) : AltMatchesAt(regex[a], seq, s)
    THEN Len(regex[CHOOSE a \in 1..Len(regex) :
                     /\ AltMatchesAt(regex[a], seq, s)
                     /\ \A b \in 1..(a - 1) : ~AltMatchesAt(regex[b], seq, s)])
    ELSE 0

\* Regex::find_iter: the leftmost match at or after from, then on from its end
RECURSIVE FindFrom(_, _, _, _)
FindFrom(regex, seq, starts, from) ==
    LET later == {s \in starts : s >= from}
    IN  IF later = {} THEN <<>>
        ELSE LET s == CHOOSE x \in later : \A y \in later : x <= y
                 m == [start |-> s, end |-> s + MatchLenAt(regex, seq, s)]
             IN  <<m>> \o FindFrom(regex, seq, starts, m.end)

find_iter(regex, seq) ==
    FindFrom(regex, seq, {s \in 0..(Len(seq) - 1) : MatchLenAt(regex, seq, s) > 0}, 0)

\* main.rs:137: the centre of every match of every promoter, in loop order
RECURSIVE TfbsCenters(_, _, _)
TfbsCenters(regex, proms, k) ==
    IF k > Len(proms) THEN <<>>
    ELSE LET ms == find_iter(regex, proms[k].sequence)
         IN  [i \in 1..Len(ms) |-> proms[k].location + ((ms[i].end - ms[i].start) \div 2)]
             \o TfbsCenters(regex, proms, k + 1)

\* main.rs:139-154: fetch and accumulate one window per centre
RECURSIVE TfbsAffinityLoop(_, _, _, _)
TfbsAffinityLoop(bw, centers, acc, k) ==
    IF k > Len(centers) THEN acc
    ELSE TfbsAffinityLoop(bw, centers,
            Accumulate(acc, BigWigValues(bw, centers[k] - 500, centers[k] + 501)), k + 1)

\* tfbs_center as u32 - 500 underflows for a centre below 500: a debug build
\* panics; a release build wraps and asks the reader for a window that starts
\* near 2^32, which the reader may reject ("err"), or answer with the 1001
\* values it holds there: none ("wrap")
get_tfbs_avg_nsome_affinity(regex, proms, bw, on_underflow) ==
    LET centers == TfbsCenters(regex, proms, 1)
        underflow == \E k \in 1..Len(centers) : centers[k] < 500
    IN  IF underflow /\ on_underflow = "panic" THEN Panic
        ELSE IF underflow /\ on_underflow = "err" THEN Err("IOError")
        ELSE LET acc == TfbsAffinityLoop(bw, centers, ZeroAffinity(1001), 1)
             IN  Ok([total_affinity |-> acc, avg_affinity |-> AvgAffinity(-500, acc)])

OnUnderflow == {"panic", "err", "wrap"}

(***************************************************************************)
(* main.rs: read_fasta_record                                              *)
(***************************************************************************)
read_fasta_record(file) ==
    IF ~file.exists THEN Err("IOError")    \* File::open(path)?
    ELSE IF file.n_records = 0 THEN Err("FASTA file has no records")
    ELSE IF file.n_records = 1 THEN Ok([seq |-> file.seq, desc |-> file.desc])
    ELSE Err("FASTA file has more than one record")

(***************************************************************************)
(* main.rs: main, one action per step.  An error value or a panic ends the *)
(* run.  A plot function's backend writes its file when it is dropped,     *)
(* also on the way out of a panic.                                         *)
(***************************************************************************)
Exit(r) == pc' = "exit" /\ result' = r

\* line 48: read_fasta_record(&cli.sequence)?
ReadFasta ==
    /\ pc = "start"
    /\ opened' = opened \cup {"sequence"}
    /\ LET r == read_fasta_record(fasta_file)
       IN  IF r.tag = "Ok"
           THEN fasta_record' = r.val /\ pc' = "fasta_read" /\ result' = result
           ELSE fasta_record' = fasta_record /\ Exit(r)
    /\ UNCHANGED <<cli, fasta_file, gtf_file, mnase_seq, records, longest_transcripts,
                   promotors, total_gc, total_affinity, plots, call, ret>>

\* lines 50-53: plot1 and return; record.desc().unwrap() panics in plot1
TotalGc ==
    /\ pc = "fasta_read"
    /\ cli.total_gc
    /\ IF fasta_record.desc
       THEN /\ plots' = ("gc-content.svg" :> plot1(fasta_record.seq, 5000)) @@ plots
            /\ Exit(Ok("unit"))
       ELSE /\ plots' = ("gc-content.svg" :> <<>>) @@ plots
            /\ Exit(Panic)
    /\ UNCHANGED <<cli, fasta_file, gtf_file, mnase_seq, fasta_record, records,
                   longest_transcripts, promotors, total_gc, total_affinity, opened,
                   call, ret>>

\* line 55: gtf::read_gtf_file(&cli.annotations)?
ReadGtf ==
    /\ pc = "fasta_read"
    /\ ~cli.total_gc
    /\ opened' = opened \cup {"annotations"}
    /\ LET r == read_gtf_file(gtf_file)
       IN  IF r.tag = "Ok"
           THEN records' = r.val /\ pc' = "gtf_read" /\ result' = result
           ELSE records' = records /\ Exit(r)
    /\ UNCHANGED <<cli, fasta_file, gtf_file, mnase_seq, fasta_record,
                   longest_transcripts, promotors, total_gc, total_affinity, plots,
                   call, ret>>

\* line 56: gtf::get_longest_transcripts(&records)?
GetLongestTranscripts ==
    /\ pc = "gtf_read"
    /\ longest_transcripts' = get_longest_transcripts(records)
    /\ pc' = "selected"
    /\ UNCHANGED <<cli, fasta_file, gtf_file, mnase_seq, fasta_record, records,
                   promotors, total_gc, total_affinity, opened, plots, result, call, ret>>

\* line 57: find_promotor_regions(&fasta_record, &records, longest_transcripts)
FindPromotorRegions ==
    /\ pc = "selected"
    /\ LET r == find_promotor_regions(fasta_record.seq, records, longest_transcripts)
       IN  IF r.tag = "Ok"
           THEN promotors' = r.val /\ pc' = "windowed" /\ result' = result
           ELSE promotors' = promotors /\ Exit(r)
    /\ UNCHANGED <<cli, fasta_file, gtf_file, mnase_seq, fasta_record, records,
                   longest_transcripts, total_gc, total_affinity, opened, plots,
                   call, ret>>

\* lines 59-84: the promoter GC mode
PromotorGc ==
    /\ pc = "windowed"
    /\ cli.promotor_gc
    /\ LET r == promotor_gc(promotors)
       IN  IF r.tag = "Ok"
           THEN /\ total_gc' = r.val
                /\ plots' = ("promotor-gc.svg" :> plot2(r.val)) @@ plots
                /\ Exit(Ok("unit"))
           ELSE /\ total_gc' = total_gc
                /\ plots' = plots
                /\ Exit(r)
    /\ UNCHANGED <<cli, fasta_file, gtf_file, mnase_seq, fasta_record, records,
                   longest_transcripts, promotors, total_affinity, opened, call, ret>>

\* line 86: BigWigRead::from_file_and_attach(..).unwrap()
OpenBigWig ==
    /\ pc = "windowed"
    /\ ~cli.promotor_gc
    /\ opened' = opened \cup {"mnase_seq"}
    /\ IF mnase_seq.exists
       THEN pc' = "bigwig_open" /\ result' = result
       ELSE Exit(Panic)
    /\ UNCHANGED <<cli, fasta_file, gtf_file, mnase_seq, fasta_record, records,
                   longest_transcripts, promotors, total_gc, total_affinity, plots,
                   call, ret>>

\* lines 88-112: the promoter MNase mode
PromotorNsomeAffinity ==
    /\ pc = "bigwig_open"
    /\ cli.promotor_nsome_affinity
    /\ total_affinity' = promotor_nsome_affinity(mnase_seq.track, promotors)
    /\ plots' = ("promotor-nsome-affinity.svg" :> AvgAffinity(-1000, total_affinity')) @@ plots
    /\ Exit(Ok("unit"))
    /\ UNCHANGED <<cli, fasta_file, gtf_file, mnase_seq, fasta_record, records,
                   longest_transcripts, promotors, total_gc, opened, call, ret>>

\* mutant: the TFBS flag is tested without regard to the promoter MNase flag
TfbsAp1_first ==
    /\ pc = "bigwig_open"
    /\ cli.tfbs_nsome_affinity
    /\ \E on_underflow \in OnUnderflow :
          LET ap_1 == get_tfbs_avg_nsome_affinity(regex_ap_1, promotors,
                                                  mnase_seq.track, on_underflow)
          IN  IF ap_1.tag = "Ok"
              THEN /\ total_affinity' = ap_1.val.total_affinity
                   /\ plots' = ("AP-1.svg" :> ap_1.val.avg_affinity) @@ plots
                   /\ pc' = "ap_1_plotted"
                   /\ result' = result
              ELSE /\ total_affinity' = total_affinity
                   /\ plots' = plots
                   /\ Exit(ap_1)
    /\ UNCHANGED <<cli, fasta_file, gtf_file, mnase_seq, fasta_record, records,
                   longest_transcripts, promotors, total_gc, opened, call, ret>>

\* lines 114-119: the AP-1 half of the TFBS mode
TfbsAp1 ==
    /\ pc = "bigwig_open"
    /\ ~cli.promotor_nsome_affinity
    /\ cli.tfbs_nsome_affinity
    /\ \E on_underflow \in OnUnderflow :
          LET ap_1 == get_tfbs_avg_nsome_affinity(regex_ap_1, promotors,
                                                  mnase_seq.track, on_underflow)
          IN  IF ap_1.tag = "Ok"
              THEN /\ total_affinity' = ap_1.val.total_affinity
                   /\ plots' = ("AP-1.svg" :> ap_1.val.avg_affinity) @@ plots
                   /\ pc' = "ap_1_plotted"
                   /\ result' = result
              ELSE /\ total_affinity' = total_affinity
                   /\ plots' = plots
                   /\ Exit(ap_1)
    /\ UNCHANGED <<cli, fasta_file, gtf_file, mnase_seq, fasta_record, records,
                   longest_transcripts, promotors, total_gc, opened, call, ret>>

\* lines 121-125: the NF-Y half of the TFBS mode
TfbsNfY ==
    /\ pc = "ap_1_plotted"
    /\ \E on_underflow \in OnUnderflow :
          LET nf_y == get_tfbs_avg_nsome_affinity(regex_nf_y, promotors,
                                                  mnase_seq.track, on_underflow)
          IN  IF nf_y.tag = "Ok"
              THEN /\ total_affinity' = nf_y.val.total_affinity
                   /\ plots' = ("NF-Y.svg" :> nf_y.val.avg_affinity) @@ plots
                   /\ Exit(Ok("unit"))
              ELSE /\ total_affinity' = total_affinity
                   /\ plots' = plots
                   /\ Exit(nf_y)
    /\ UNCHANGED <<cli, fasta_file, gtf_file, mnase_seq, fasta_record, records,
                   longest_transcripts, promotors, total_gc, opened, call, ret>>

\* line 125: no mode flag is set
NoMode ==
    /\ pc = "bigwig_open"
    /\ ~cli.promotor_nsome_affinity
    /\ ~cli.tfbs_nsome_affinity
    /\ Exit(Ok("unit"))
    /\ UNCHANGED <<cli, fasta_file, gtf_file, mnase_seq, fasta_record, records,
                   longest_transcripts, promotors, total_gc, total_affinity, opened,
                   plots, call, ret>>

Next ==
    \/ ReadFasta
    \/ TotalGc
    \/ ReadGtf
    \/ GetLongestTranscripts
    \/ FindPromotorRegions
    \/ PromotorGc
    \/ OpenBigWig
    \/ PromotorNsomeAffinity
    \/ TfbsAp1
    \/ TfbsNfY
    \/ NoMode

(***************************************************************************)
(* The inputs.  The chromosome is a periodic background that holds neither *)
(* ATG nor CAT, with start codons and motifs planted in it; positions are  *)
(* 1-based, as in the GTF file.                                            *)
(***************************************************************************)
ChromLen == 2200

MaxLines == 7

Background == <<"A", "A", "C", "G", "G", "T", "N", "C">>

ATG == <<"A", "T", "G">>

CAT == <<"C", "A", "T">>

Planted ==
    << [pos |-> 99, bytes |-> CAT],                  \* Minus codon ending at 101
       [pos |-> 298, bytes |-> CAT],                 \* Minus codon ending at 300
       [pos |-> 600, bytes |-> regex_nf_y[2]],
       [pos |-> 1001, bytes |-> ATG],
       [pos |-> 1148, bytes |-> CAT],                \* Minus codon ending at 1150
       [pos |-> ChromLen - 1002, bytes |-> CAT],     \* ... at ChromLen - 1000
       [pos |-> 1210, bytes |-> regex_ap_1[1]],
       [pos |-> 1250, bytes |-> regex_nf_y[1] \o <<"T", "G", "G">>],
       [pos |-> 1300, bytes |-> regex_ap_1[2]],
       [pos |-> 1400, bytes |-> ATG],
       [pos |-> 2000, bytes |-> ATG],
       [pos |-> ChromLen - 100, bytes |-> ATG] >>

Chromosome ==
    [i \in 1..ChromLen |->
        IF \E k \in 1..Len(Planted) :
              Planted[k].pos <= i /\ i < Planted[k].pos + Len(Planted[k].bytes)
        THEN LET k == CHOOSE k \in 1..Len(Planted) :
                        Planted[k].pos <= i /\ i < Planted[k].pos + Len(Planted[k].bytes)
             IN  Planted[k].bytes[i - Planted[k].pos + 1]
        ELSE Background[(i % 8) + 1]]

FastaFiles ==
    {[exists |-> FALSE, n_records |-> 0, seq |-> <<>>, desc |-> FALSE]}
    \cup {[exists |-> TRUE, n_records |-> n, seq |-> IF n = 0 THEN <<>> ELSE Chromosome,
           desc |-> TRUE] : n \in 0..2}
    \cup {[exists |-> TRUE, n_records |-> 1, seq |-> Chromosome, desc |-> FALSE]}

\* two tracks: one with a missing value at every seventh position, one that
\* covers the middle of the chromosome only
Tracks ==
    {[pos \in 0..(ChromLen - 1) |-> IF pos % 7 = 0 THEN NaN ELSE pos % 3],
     [pos \in 0..(ChromLen - 1) |-> IF pos < 1100 \/ pos >= 1900 THEN NaN ELSE 1 + (pos % 2)]}

BigWigFiles ==
    {[exists |-> FALSE, track |-> <<>>]} \cup {[exists |-> TRUE, track |-> t] : t \in Tracks}

RECURSIVE ToChars(_)
ToChars(n) ==
    IF n < 10 THEN <<Digits[n + 1]>> ELSE ToChars(n \div 10) \o <<Digits[(n % 10) + 1]>>

Attrs(gene, transcript) ==
    << [key |-> "gene_id", prefix |-> "ENSG", rest |-> gene],
       [key |-> "transcript_id", prefix |-> "ENST", rest |-> transcript],
       [key |-> "gene_type", prefix |-> "protein_coding", rest |-> ""] >>

Line(chrom, feature, start, end, strand, attrs) ==
    <<chrom, "HAVANA", feature, ToChars(start), ToChars(end), ".", strand, ".", attrs>>

\* an annotation; a GTF file holds some of its first MaxLines lines, in order
MasterLines ==
    << Line("chr1", "transcript", 1300, 1550, "+", Attrs("001", "001")),
       Line("chr1", "transcript", 1300, 2050, "+", Attrs("001", "002")),
       Line("chr1", "start_codon", 1400, 1402, "+", Attrs("001", "001")),
       Line("chr1", "start_codon", 500, 502, "+", Attrs("001", "002")),
       Line("chr1", "transcript", 900, 1150, "-", Attrs("002", "003")),
       Line("chr1", "start_codon", 1148, 1150, "-", Attrs("002", "003")),
       Line("chr1", "transcript", 1700, 1900, ".", Attrs("003", "004")),
       Line("chr2", "start_codon", 1148, 1150, "-", Attrs("002", "003")),
       <<"#">> >>

RECURSIVE Pick(_, _, _)
Pick(lines, mask, k) ==
    IF k > Len(lines) THEN <<>>
    ELSE (IF k \in mask THEN <<lines[k]>> ELSE <<>>) \o Pick(lines, mask, k + 1)

GtfFiles ==
    {[exists |-> FALSE, lines |-> <<>>]}
    \cup {[exists |-> TRUE, lines |-> Pick(MasterLines, mask, 1)] :
            mask \in SUBSET (1..Min(MaxLines, Len(MasterLines)))}

Flags == [total_gc : BOOLEAN, promotor_gc : BOOLEAN,
          promotor_nsome_affinity : BOOLEAN, tfbs_nsome_affinity : BOOLEAN]

NoCall == [fn |-> "main"]

\* An input that the run never reads is held at one value: main reads the
\* annotations only after a single FASTA record and without --total-gc, the
\* BigWig file only when, further, --promotor-gc is not set, and the FASTA
\* description only in plot1.
ReadsGtf(flags, fasta) == fasta.exists /\ fasta.n_records = 1 /\ ~flags.total_gc

ReadsBigWig(flags, fasta) == ReadsGtf(flags, fasta) /\ ~flags.promotor_gc

Init ==
    /\ pc = "start"
    /\ cli \in Flags
    /\ fasta_file \in {f \in FastaFiles : f.desc \/ f.n_records # 1 \/ cli.total_gc}
    /\ gtf_file \in IF ReadsGtf(cli, fasta_file) THEN GtfFiles
                    ELSE {[exists |-> FALSE, lines |-> <<>>]}
    /\ mnase_seq \in IF ReadsBigWig(cli, fasta_file) THEN BigWigFiles
                     ELSE {[exists |-> FALSE, track |-> <<>>]}
    /\ fasta_record = [seq |-> <<>>, desc |-> FALSE]
    /\ records = <<>>
    /\ longest_transcripts = {}
    /\ promotors = <<>>
    /\ total_gc = <<>>
    /\ total_affinity = <<>>
    /\ opened = {}
    /\ plots = <<>>
    /\ result = Running
    /\ call = NoCall
    /\ ret = NotReturned

Spec == Init /\ [][Next]_vars

(***************************************************************************)
(* The selector alone: main after read_gtf_file, on every short list of    *)
(* records.                                                                *)
(***************************************************************************)
MaxSelRecords == 3

Record(feature_type, start, end, strand, gene, transcript) ==
    [feature_type |-> feature_type, start |-> start, end |-> end, strand |-> strand,
     attributes |-> [gene_id |-> "ENSG" \o gene, transcript_id |-> "ENST" \o transcript]]

\* transcripts of two genes of length 100, 300 and 500 (one with start > end),
\* and a start codon
SelMenu ==
    {Record("Transcript", se[1], se[2], "Plus", g, "001") :
        se \in {<<100, 200>>, <<100, 400>>, <<100, 600>>, <<700, 200>>},
        g \in {"001", "002"}}
    \cup {Record("StartCodon", 100, 102, "Plus", "001", "001")}

SeqsUpTo(S, n) == UNION {[1..m -> S] : m \in 0..n}

MainIdle ==
    /\ cli = [total_gc |-> FALSE, promotor_gc |-> FALSE,
              promotor_nsome_affinity |-> FALSE, tfbs_nsome_affinity |-> FALSE]
    /\ fasta_file = [exists |-> FALSE, n_records |-> 0, seq |-> <<>>, desc |-> FALSE]
    /\ gtf_file = [exists |-> FALSE, lines |-> <<>>]
    /\ mnase_seq = [exists |-> FALSE, track |-> <<>>]
    /\ longest_transcripts = {}
    /\ promotors = <<>>
    /\ total_gc = <<>>
    /\ total_affinity = <<>>
    /\ opened = {}
    /\ plots = <<>>
    /\ result = Running

InitSelect ==
    /\ pc = "gtf_read"
    /\ records \in SeqsUpTo(SelMenu, MaxSelRecords)
    /\ fasta_record = [seq |-> <<>>, desc |-> TRUE]
    /\ MainIdle
    /\ call = NoCall
    /\ ret = NotReturned

SpecSelect == InitSelect /\ [][GetLongestTranscripts]_vars

(***************************************************************************)
(* The selector and the windower: main after read_gtf_file, on the         *)
(* chromosome and a list of transcripts followed by start codons at the    *)
(* edges of and inside the range a window can be cut from.                 *)
(***************************************************************************)
MaxCodons == 2

WinTranscripts ==
    << Record("Transcript", 900, 2100, "Plus", "001", "001"),
       Record("Transcript", 900, 1500, "Plus", "001", "008"),
       Record("Transcript", 100, 1300, "Minus", "002", "002") >>

WinCodons ==
    {Record("StartCodon", s, s + 2, "Plus", "001", "001") :
        s \in {500, 1000, 1001, 1400, 2000, ChromLen - 100, ChromLen - 99}}
    \cup {Record("StartCodon", e - 2, e, "Minus", "002", "002") :
        e \in {100, 101, 300, 1150, ChromLen - 1000, ChromLen - 999}}
    \cup {Record("StartCodon", 1400, 1402, "Plus", "001", "008"),
          Record("StartCodon", 2000, 2002, "Plus", "009", "009")}

InitWindow ==
    /\ pc = "gtf_read"
    /\ records \in {WinTranscripts \o codons : codons \in SeqsUpTo(WinCodons, MaxCodons)}
    /\ fasta_record = [seq |-> Chromosome, desc |-> TRUE]
    /\ MainIdle
    /\ call = NoCall
    /\ ret = NotReturned

NextWindow == GetLongestTranscripts \/ FindPromotorRegions

SpecWindow == InitWindow /\ [][NextWindow]_vars

(***************************************************************************)
(* Single calls of the pure functions, on all small arguments              *)
(***************************************************************************)
UnitIdle ==
    /\ pc = "unit"
    /\ fasta_record = [seq |-> <<>>, desc |-> FALSE]
    /\ records = <<>>
    /\ MainIdle
    /\ ret = NotReturned

mainVars == <<pc, cli, fasta_file, gtf_file, mnase_seq, fasta_record, records,
              longest_transcripts, promotors, total_gc, total_affinity, opened,
              plots, result>>

\* get_gc_content(sequence, window_size, step).collect()
CallGetGcContent ==
    /\ call.fn = "get_gc_content"
    /\ ret = NotReturned
    /\ ret' = get_gc_content(call.sequence, call.window_size, call.step)
    /\ UNCHANGED <<mainVars, call>>

MaxBlocks == 3

MaxWindow == 12

MaxStep == 4

\* byte sequences of up to MaxBlocks blocks of four bytes
Blocks == {<<"A", "A", "A", "A">>, <<"C", "C", "C", "C">>,
           <<"G", "C", "G", "C">>, <<"A", "N", "G", "T">>}

RECURSIVE Concat(_)
Concat(ss) == IF ss = <<>> THEN <<>> ELSE Head(ss) \o Concat(Tail(ss))

InitGc ==
    /\ UnitIdle
    /\ call \in [fn : {"get_gc_content"},
                 sequence : {Concat(bs) : bs \in SeqsUpTo(Blocks, MaxBlocks)},
                 window_size : 0..MaxWindow,
                 step : 0..MaxStep]

SpecGc == InitGc /\ [][CallGetGcContent]_vars

\* p.get_opposite_sequence(), then the same of its result
CallGetOppositeSequence ==
    /\ call.fn = "get_opposite_sequence"
    /\ \/ /\ ret = NotReturned
          /\ ret' = [tag |-> "Ok", val |-> get_opposite_sequence(call.sequence), times |-> 1]
       \/ /\ ret.tag = "Ok"
          /\ ret.times = 1
          /\ ret' = [tag |-> "Ok", val |-> get_opposite_sequence(ret.val), times |-> 2]
    /\ UNCHANGED <<mainVars, call>>

MaxSeqLen == 5

Bytes == {"A", "C", "G", "T", "N"}

InitOpposite ==
    /\ UnitIdle
    /\ call \in [fn : {"get_opposite_sequence"}, sequence : SeqsUpTo(Bytes, MaxSeqLen)]

SpecOpposite == InitOpposite /\ [][CallGetOppositeSequence]_vars

\* line.parse::<GTFRecord>()
CallGTFRecordFromStr ==
    /\ call.fn = "GTFRecord::from_str"
    /\ ret = NotReturned
    /\ ret' = GTFRecord_from_str(call.line)
    /\ UNCHANGED <<mainVars, call>>

MaxCols == 9

GeneIdAttr == [key |-> "gene_id", prefix |-> "ENSG", rest |-> "001"]

TranscriptIdAttr == [key |-> "transcript_id", prefix |-> "ENST", rest |-> "001"]

AttrColumns ==
    {<<GeneIdAttr, TranscriptIdAttr>>,
     <<TranscriptIdAttr, GeneIdAttr>>,
     <<GeneIdAttr, [key |-> "gene_type", prefix |-> "protein_coding", rest |-> ""],
       TranscriptIdAttr>>,
     <<GeneIdAttr>>,
     <<TranscriptIdAttr>>,
     <<GeneIdAttr, [key |-> "transcript_id", prefix |-> "XM", rest |-> "001"]>>,
     <<>>}

\* the first n columns of every line built from the column values below
ParseLines ==
    {<<"#">>}
    \cup {SubSeq(<<"chr1", "HAVANA", feature, start, end, ".", strand, "0", attrs, "">>, 1, n) :
            feature \in {"start_codon", "transcript", "intron"},
            start \in {<<"1", "0", "0", "1">>, <<"+", "7">>, <<"1", "e", "3">>, <<>>},
            end \in {<<"1", "0", "0", "3">>, <<"-", "5">>},
            strand \in {"+", "-", ".", ""},
            attrs \in AttrColumns,
            n \in 0..Min(MaxCols, 10)}

InitParse ==
    /\ UnitIdle
    /\ call \in [fn : {"GTFRecord::from_str"}, line : ParseLines]

SpecParse == InitParse /\ [][CallGTFRecordFromStr]_vars

(***************************************************************************)
(* The claims                                                              *)
(***************************************************************************)
Transcripts == {k \in 1..Len(records) : records[k].feature_type = "Transcript"}

GeneOf(k) == records[k].attributes.gene_id

\* C1: get_longest_transcripts returns exactly one record per gene_id that
\* occurs among the Transcript records and no other record; the record
\* returned for a gene is at least as long as every Transcript record of that
\* gene, and among the longest ones it is the first in input order.
C1_LongestTranscripts ==
    pc = "selected" =>
        /\ longest_transcripts \subseteq Transcripts
        /\ \A j \in Transcripts :
              Cardinality({k \in longest_transcripts : GeneOf(k) = GeneOf(j)}) = 1
        /\ \A k \in longest_transcripts : \A j \in Transcripts :
              GeneOf(j) = GeneOf(k) =>
                 /\ GTFRecord_len(records[k]) >= GTFRecord_len(records[j])
                 /\ GTFRecord_len(records[k]) = GTFRecord_len(records[j]) => k <= j

\* a gene whose longest length is shared by two transcripts, after a shorter
\* one: the first of the two was returned
C1_Witness ==
    /\ pc = "selected"
    /\ \E i, k, j \in Transcripts :
          /\ i < k /\ k < j
          /\ GeneOf(i) = GeneOf(k) /\ GeneOf(k) = GeneOf(j)
          /\ GTFRecord_len(records[i]) < GTFRecord_len(records[k])
          /\ GTFRecord_len(records[k]) = GTFRecord_len(records[j])
          /\ k \in longest_transcripts

\* the start codon the k-th promoter window was cut for
CodonOf(k) == StartCodons(records, longest_transcripts)[k]

\* the byte at 0-based offset i of the chromosome
ChromAt(i) == fasta_record.seq[i + 1]

\* C2: every promoter window find_promotor_regions emits is 1101 bytes long,
\* and its location is the lower chromosomal endpoint of the slice it holds:
\* C.start - 1001 for a Plus start codon C, C.end - 101 for a Minus one.
C2_WindowLength ==
    pc = "windowed" =>
        /\ Len(promotors) = Len(StartCodons(records, longest_transcripts))
        /\ \A k \in 1..Len(promotors) :
              /\ Len(promotors[k].sequence) = 1101
              /\ promotors[k].strand = CodonOf(k).strand
              /\ promotors[k].location =
                    IF CodonOf(k).strand = "Plus" THEN CodonOf(k).start - 1001
                    ELSE CodonOf(k).end - 101
              /\ \A i \in 0..1100 :
                    promotors[k].sequence[i + 1] = ChromAt(promotors[k].location + i)

\* windows were emitted for a Plus and for a Minus start codon
C2_Witness ==
    /\ pc = "windowed"
    /\ \E k, j \in 1..Len(promotors) :
          promotors[k].strand = "Plus" /\ promotors[j].strand = "Minus"

\* C3: in the strand-normalized sequence of every emitted window the three
\* bases of the start codon are at offsets 1000, 1001 and 1002, first base
\* first (on the Minus strand the codon is read from C.end downwards,
\* complemented); the window is 1101 long, so 1000 bases precede the codon.
\* A Plus start codon at position 2000 gives the window [999, 2100) with
\* location 999 and ATG at offsets 1000..1003.
C3_CodonOffset ==
    pc = "windowed" =>
        \A k \in 1..Len(promotors) :
            LET normalized == StrandNormalized(promotors[k])
                C == CodonOf(k)
            IN  /\ Len(normalized) = 1101
                /\ \A j \in 0..2 :
                      normalized[1000 + j + 1] =
                         IF C.strand = "Plus"
                         THEN fasta_record.seq[C.start + j]
                         ELSE Complement(fasta_record.seq[C.end - j])
                /\ (C.strand = "Plus" /\ C.start = 2000) =>
                      /\ promotors[k].location = 999
                      /\ promotors[k].sequence = SubSeq(fasta_record.seq, 1000, 2100)
                      /\ SubSeq(normalized, 1001, 1003) = ATG

\* a window of the Plus start codon at 2000 and a window of a Minus start
\* codon whose reverse complement reads ATG at offset 1000
C3_Witness ==
    /\ pc = "windowed"
    /\ \E k, j \in 1..Len(promotors) :
          /\ promotors[k].strand = "Plus" /\ CodonOf(k).start = 2000
          /\ promotors[k].location = 999
          /\ promotors[j].strand = "Minus"
          /\ SubSeq(StrandNormalized(promotors[j]), 1001, 1003) = ATG

\* whether a 1101-long window can be cut for start codon C
WindowInBounds(C) ==
    IF C.strand = "Plus"
    THEN C.start >= 1001 /\ C.start + 100 <= Len(fasta_record.seq)
    ELSE C.end >= 101 /\ C.end + 1000 <= Len(fasta_record.seq)

SomeWindowOutOfBounds ==
    \E k \in 1..Len(StartCodons(records, longest_transcripts)) : ~WindowInBounds(CodonOf(k))

\* C5: when a selected start codon is too close to an end of the chromosome,
\* the windower fails with a WindowOutOfBounds error value that reaches main;
\* it emits no window and does not abort abnormally.
C5_WindowOutOfBounds ==
    (pc \in {"windowed", "exit"} /\ SomeWindowOutOfBounds) =>
        /\ pc = "exit"
        /\ result.tag = "Err"
        /\ promotors = <<>>

\* the GC fraction the claim gives for the window of W bytes from 0-based
\* offset first of B
ClaimedFraction(B, first, W) ==
    [num |-> Cardinality({k \in (first + 1)..(first + W) : B[k] \in {"G", "C"}}), den |-> W]

\* C4: for W >= 1 and S >= 1, get_gc_content(B, W, S) yields one pair for
\* every i >= 0 with i*S + W <= len(B), in increasing i, and no more; the i-th
\* pair is (W/2 + i*S, the number of G or C bytes of B[i*S .. i*S+W] over W), a
\* fraction between 0 and 1; get_gc_content("AAAACCCC", 4, 4) is
\* [(2, 0.0), (6, 1.0)].
C4_GcWindows ==
    (call.fn = "get_gc_content" /\ ret # NotReturned
       /\ call.window_size >= 1 /\ call.step >= 1) =>
        LET B == call.sequence
            W == call.window_size
            S == call.step
            n == IF Len(B) >= W THEN ((Len(B) - W) \div S) + 1 ELSE 0
        IN  /\ ret.tag = "Ok"
            /\ ret.val = [i \in 1..n |->
                            <<(W \div 2) + (i - 1) * S, ClaimedFraction(B, (i - 1) * S, W)>>]
            /\ \A i \in 1..Len(ret.val) :
                  0 <= ret.val[i][2].num /\ ret.val[i][2].num <= ret.val[i][2].den
            /\ (B = <<"A", "A", "A", "A", "C", "C", "C", "C">> /\ W = 4 /\ S = 4) =>
                  ret.val = << <<2, [num |-> 0, den |-> 4]>>, <<6, [num |-> 4, den |-> 4]>> >>

\* C6: on a line that is no comment the record parser returns a record or an
\* error value and never aborts: an error value when a required column is
\* missing or a coordinate is not a number, when the strand is neither + nor
\* -, and when the attributes lack a gene_id "ENSG.." or a transcript_id
\* "ENST.."; a record when both are there, in either order.
C6_ParserTotal ==
    (call.fn = "GTFRecord::from_str" /\ ret # NotReturned /\ ~StartsWithHash(call.line)) =>
        LET line == call.line
            columns_ok == /\ Len(line) >= 9
                          /\ FeatureType_from_str(line[3]).tag = "Ok"
                          /\ parse_usize(line[4]).tag = "Ok"
                          /\ parse_usize(line[5]).tag = "Ok"
            strand_ok == line[7] \in {"+", "-"}
            has_ids == /\ \E k \in 1..Len(line[9]) : IsGeneIdAttr(line[9][k])
                       /\ \E k \in 1..Len(line[9]) : IsTranscriptIdAttr(line[9][k])
        IN  /\ ret.tag \in {"Ok", "Err"}
            /\ ~columns_ok => ret.tag = "Err"
            /\ (columns_ok /\ ~strand_ok) => ret.tag = "Err"
            /\ (columns_ok /\ strand_ok /\ ~has_ids) => ret.tag = "Err"
            /\ (columns_ok /\ strand_ok /\ has_ids) => ret.tag = "Ok"

\* the complement the claim gives for one byte
ClaimedComplement ==
    [b \in Bytes |-> CASE b = "A" -> "T" [] b = "T" -> "A" [] b = "G" -> "C"
                       [] b = "C" -> "G" [] OTHER -> b]

\* C7: get_opposite_sequence reverses the positions, maps A<->T and G<->C and
\* leaves every other byte as it is ("ATGCN" becomes "NGCAT"); applied twice it
\* gives the original sequence back.
C7_Involution ==
    (call.fn = "get_opposite_sequence" /\ ret # NotReturned) =>
        LET n == Len(call.sequence)
        IN  /\ ret.times = 1 =>
                  /\ Len(ret.val) = n
                  /\ \A i \in 1..n : ret.val[i] = ClaimedComplement[call.sequence[n + 1 - i]]
            /\ (ret.times = 1 /\ call.sequence = <<"A", "T", "G", "C", "N">>) =>
                  ret.val = <<"N", "G", "C", "A", "T">>
            /\ ret.times = 2 => ret.val = call.sequence

\* "ATGCN" reverse-complemented twice
C7_Witness ==
    /\ call.fn = "get_opposite_sequence"
    /\ call.sequence = <<"A", "T", "G", "C", "N">>
    /\ ret # NotReturned
    /\ ret.times = 2
    /\ ret.val = call.sequence

\* the mode of the first set flag, in the order of the dispatch
FirstMode ==
    IF cli.total_gc THEN "total_gc"
    ELSE IF cli.promotor_gc THEN "promotor_gc"
    ELSE IF cli.promotor_nsome_affinity THEN "promotor_nsome_affinity"
    ELSE IF cli.tfbs_nsome_affinity THEN "tfbs_nsome_affinity"
    ELSE "none"

ModeOutputs(mode) ==
    CASE mode = "total_gc" -> {"gc-content.svg"}
      [] mode = "promotor_gc" -> {"promotor-gc.svg"}
      [] mode = "promotor_nsome_affinity" -> {"promotor-nsome-affinity.svg"}
      [] mode = "tfbs_nsome_affinity" -> {"AP-1.svg", "NF-Y.svg"}
      [] OTHER -> {}

\* C8: whatever flags are set, a run writes only the SVG files of the mode of
\* the first set flag (in the order --total-gc, --promotor-gc,
\* --promotor-nsome-affinity, --tfbs-nsome-affinity), all of them when it ends
\* well, and under --total-gc it opens neither the GTF nor the BigWig file.
C8_FirstModeWins ==
    /\ DOMAIN plots \subseteq ModeOutputs(FirstMode)
    /\ result = Ok("unit") => DOMAIN plots = ModeOutputs(FirstMode)
    /\ cli.total_gc => opened \subseteq {"sequence"}

\* a run with the last three flags set ended well with the promoter GC plot
\* only, the BigWig file unopened
C8_Witness ==
    /\ result = Ok("unit")
    /\ ~cli.total_gc
    /\ cli.promotor_gc /\ cli.promotor_nsome_affinity /\ cli.tfbs_nsome_affinity
    /\ DOMAIN plots = {"promotor-gc.svg"}
    /\ opened = {"sequence", "annotations"}

\* the number and the sum of the values of col that are not NaN
ClaimedCount(col) == Cardinality({w \in 1..Len(col) : col[w] # NaN})

RECURSIVE ClaimedSum(_)
ClaimedSum(col) ==
    IF col = <<>> THEN 0
    ELSE (IF Head(col) # NaN THEN Head(col) ELSE 0) + ClaimedSum(Tail(col))

\* mean is sum / count
IsMean(mean, sum, count) ==
    IF count = 0 THEN mean = NaNQuotient
    ELSE mean.den > 0 /\ mean.num * count = sum * mean.den

\* the accumulator and the series drawn agree with the windows: cols[i + 1]
\* holds, window by window, the track value aligned to offset i
AggregatesWindows(series, first_offset, length, cols) ==
    /\ Len(total_affinity) = length
    /\ Len(series) = length
    /\ \A i \in 0..(length - 1) :
          /\ total_affinity[i + 1].count = ClaimedCount(cols[i + 1])
          /\ total_affinity[i + 1].sum = ClaimedSum(cols[i + 1])
          /\ series[i + 1][1] = first_offset + i
          /\ IsMean(series[i + 1][2], ClaimedSum(cols[i + 1]), ClaimedCount(cols[i + 1]))

\* the promoter windows: [location, location + 1100), read backwards when Minus
PromotorCols ==
    [i1 \in 1..1100 |->
        [k \in 1..Len(promotors) |->
            TrackAt(mnase_seq.track,
                    IF promotors[k].strand = "Minus"
                    THEN promotors[k].location + 1100 - i1
                    ELSE promotors[k].location + i1 - 1)]]

\* the TFBS windows: [centre - 500, centre + 501), never reversed
TfbsCols(regex) ==
    LET centers == TfbsCenters(regex, promotors, 1)
    IN  [i1 \in 1..1001 |->
            [w \in 1..Len(centers) |-> TrackAt(mnase_seq.track, centers[w] - 500 + i1 - 1)]]

\* C9: after the promoter MNase aggregation and after each TFBS aggregation,
\* count[i] is the number of fetched windows whose value at aligned offset i
\* is not NaN and sum[i] is the sum of those values; a Minus promoter window
\* is aligned reversed, a TFBS window never is; the mean drawn at offset i is
\* sum[i] / count[i].
C9_Aggregators ==
    /\ (pc = "exit" /\ "promotor-nsome-affinity.svg" \in DOMAIN plots) =>
          AggregatesWindows(plots["promotor-nsome-affinity.svg"], -1000, 1100, PromotorCols)
    /\ pc = "ap_1_plotted" =>
          AggregatesWindows(plots["AP-1.svg"], -500, 1001, TfbsCols(regex_ap_1))
    /\ (pc = "exit" /\ "NF-Y.svg" \in DOMAIN plots) =>
          AggregatesWindows(plots["NF-Y.svg"], -500, 1001, TfbsCols(regex_nf_y))

\* the promoter aggregation ran over a Plus and a Minus window, and at some
\* offset one of the two windows holds a NaN and the other a value
C9_Witness ==
    /\ pc = "exit"
    /\ "promotor-nsome-affinity.svg" \in DOMAIN plots
    /\ \E k, j \in 1..Len(promotors) :
          promotors[k].strand = "Plus" /\ promotors[j].strand = "Minus"
    /\ \E i \in 1..1100 :
          total_affinity[i].count = 1 /\ total_affinity[i].sum > 0 /\ Len(promotors) = 2

\* C10: the promoter GC series has 952 points; point i is drawn at offset
\* i - 925 and its value is the mean, over the promoters, of the GC fraction
\* of the 150 bytes from index i of the strand-normalized promoter sequence.
C10_PromotorGcSeries ==
    (pc = "exit" /\ "promotor-gc.svg" \in DOMAIN plots) =>
        LET series == plots["promotor-gc.svg"]
            n == Len(promotors)
        IN  /\ Len(series) = 952
            /\ \A i \in 0..951 :
                  LET gc_bytes == ClaimedSum([k \in 1..n |->
                          ClaimedFraction(StrandNormalized(promotors[k]), i, 150).num])
                  IN  /\ series[i + 1][1] = i - 925
                      /\ IsMean(series[i + 1][2], gc_bytes, 150 * n)

====
